---------------------------- MODULE Spec2Model ----------------------------
(***************************************************************************)
(* A model of discord::DiscordRPC (src/src/discord/discordrpc.{h,cpp}):    *)
(* the connection state machine, the reconnect scheduler, the frame        *)
(* decoder working on the byte buffer, and the presence encoder.           *)
(*                                                                         *)
(* The object lives on one thread of a Qt event loop, so every public call *)
(* and every slot runs to completion: each is one action.  Signals of the  *)
(* socket are connected directly (same thread), so a slot triggered from   *)
(* inside a handler (connected() from connectToServer, disconnected() from *)
(* disconnectFromServer) runs inside that handler, and is part of the same *)
(* action.  The code flushes after every write, so disconnectFromServer    *)
(* finds no bytes to write and closes at once.                             *)
(***************************************************************************)
EXTENDS Integers, Sequences, FiniteSets, TLC

(***************************************************************************)
(* Bounds of the model.                                                    *)
(***************************************************************************)
\* frames the peer writes during one connection
MaxPeerFrames == 2
\* presence messages built during one run (bounds nonce_)
MaxNonce == 2
\* failed scans in a row
MaxFailures == 8

(***************************************************************************)
(* Program constants, discordrpc.cpp:42-45.                                *)
(***************************************************************************)
kReconnectMinDelayMs == 500
kReconnectMaxDelayMs == 60000
kRpcVersion == 1
kMaxFrameSize == 64 * 1024

\* enum class State, discordrpc.h:89-94
State == {"Disconnected", "Connecting", "SentHandshake", "Connected"}

\* enum class Opcode : quint32, discordrpc.h:96-102
OpHandshake == 0
OpFrame == 1
OpClose == 2
OpPing == 3
OpPong == 4

\* the application id handed to the constructor, and the process id
application_id_ == "app"
pid == 4242

(***************************************************************************)
(* quint32, int and QByteArray.  A quint32 is kept as its two 16-bit       *)
(* halves, so that all 2^32 values and the wrap-around of unsigned         *)
(* arithmetic are exact.                                                   *)
(***************************************************************************)
qMin(a, b) == IF a < b THEN a ELSE b

\* static_cast<quint32>(n) for 0 <= n < 2^31
ToU32(n) == [hi |-> n \div 65536, lo |-> n % 65536]

\* unsigned addition, modulo 2^32
U32Add(a, b) ==
  [hi |-> (a.hi + b.hi + ((a.lo + b.lo) \div 65536)) % 65536,
   lo |-> (a.lo + b.lo) % 65536]

\* static_cast<int>(u): the two's complement reading of the 32 bits
ToInt32(u) ==
  (IF u.hi >= 32768 THEN u.hi - 65536 ELSE u.hi) * 65536 + u.lo

\* quint32 passed where a qsizetype (64 bit) is expected: the value, which
\* from 2^31 on is only known to be larger than the size of any buffer
ToSize(u) ==
  IF u.hi >= 32768 THEN 2147483647 ELSE u.hi * 65536 + u.lo

\* frame.append(reinterpret_cast<const char*>(&v), sizeof(v)): little-endian
AppendU32(u) ==
  << u.lo % 256, u.lo \div 256, u.hi % 256, u.hi \div 256 >>

\* memcpy(&v, constData() + off, sizeof(v)), off counted from 0
ReadU32(buf, off) ==
  [hi |-> buf[off + 3] + 256 * buf[off + 4],
   lo |-> buf[off + 1] + 256 * buf[off + 2]]

\* QByteArray::mid(pos, len), 0 <= pos <= size, len >= 0
Mid(buf, pos, len) ==
  IF len > Len(buf) - pos THEN SubSeq(buf, pos + 1, Len(buf))
  ELSE SubSeq(buf, pos + 1, pos + len)

\* QByteArray::remove(pos, len)
Remove(buf, pos, len) ==
  IF len <= 0 \/ pos < 0 \/ pos >= Len(buf) THEN buf
  ELSE IF len > Len(buf) - pos THEN SubSeq(buf, 1, pos)
  ELSE SubSeq(buf, 1, pos) \o SubSeq(buf, pos + len + 1, Len(buf))

\* the wire format of a frame: header (opcode, length), then the payload
EncodeFrame(opcode, payload) ==
  AppendU32(ToU32(opcode)) \o AppendU32(ToU32(Len(payload))) \o payload

(***************************************************************************)
(* JSON texts the peer sends, as their ASCII bytes, and what               *)
(* QJsonDocument::fromJson makes of them.                                  *)
(***************************************************************************)
\* {"cmd":"DISPATCH","evt":"READY"}
TextReady ==
  << 123, 34, 99, 109, 100, 34, 58, 34, 68, 73, 83, 80, 65, 84, 67, 72, 34, 44,
     34, 101, 118, 116, 34, 58, 34, 82, 69, 65, 68, 89, 34, 125 >>
\* {"evt":"READY"}
TextEvtOnly ==
  << 123, 34, 101, 118, 116, 34, 58, 34, 82, 69, 65, 68, 89, 34, 125 >>
\* []
TextArray == << 91, 93 >>
\* {
TextBroken == << 123 >>

JsonString(s) == [type |-> "string", v |-> s]

\* QJsonDocument::fromJson(data, &error)
ParseJson(data) ==
  CASE data = TextReady ->
         [error |-> FALSE, isObject |-> TRUE,
          object |-> [cmd |-> JsonString("DISPATCH"), evt |-> JsonString("READY")]]
    [] data = TextEvtOnly ->
         [error |-> FALSE, isObject |-> TRUE, object |-> [evt |-> JsonString("READY")]]
    [] data = TextArray ->
         [error |-> FALSE, isObject |-> FALSE, object |-> << >>]
    [] OTHER ->
         [error |-> TRUE, isObject |-> FALSE, object |-> << >>]

\* obj.value(key).toString(): the empty string unless the value is a string
ValueToString(obj, key) ==
  IF key \in DOMAIN obj /\ obj[key].type = "string" THEN obj[key].v ELSE ""

(***************************************************************************)
(* The object.  A handler is an operator from the object before the call   *)
(* to the object after it; `o` holds the members of DiscordRPC             *)
(* (discordrpc.h:113-119), the state of the two Qt objects it owns, and    *)
(* what an observer of the object sees:                                    *)
(*   state_, nonce_, reconnect_delay_, read_buffer_   the members          *)
(*   timer_active, timer_interval   reconnect_timer_ (single shot)         *)
(*   socket_state                   socket_->state()                       *)
(*   written      the frames handed to socket_->write by the call or event *)
(*                that ran last                                            *)
(*   dispatched   the (opcode, payload) pairs the decoder has extracted on *)
(*                the current connection, with state_ before and after     *)
(*                each; empty when there is no connection                  *)
(*   failures     failed scans and transport drops since the last          *)
(*                connected() of the socket                                *)
(*   hung         the thread is in a loop that does not end                *)
(*   overflow_complete   what this build makes of the test for a full      *)
(*                message when header_size + static_cast<int>(length)      *)
(*                leaves the range of int (undefined behaviour): the       *)
(*                message is taken as complete, or not                     *)
(***************************************************************************)

\* DiscordRPC::DiscordRPC
Constructed ==
  [state_ |-> "Disconnected",
   nonce_ |-> 1,
   reconnect_delay_ |-> kReconnectMinDelayMs,
   read_buffer_ |-> << >>,
   timer_active |-> FALSE,
   timer_interval |-> 0,
   socket_state |-> "Unconnected",
   written |-> << >>,
   dispatched |-> << >>,
   failures |-> 0,
   hung |-> FALSE,
   overflow_complete |-> FALSE]

\* socket_->write(frame); socket_->flush(): header and data of the frame
SocketWrite(o, opcode, length, data) ==
  [o EXCEPT !.written = Append(@, [opcode |-> opcode, length |-> length, data |-> data])]

\* ScheduleReconnect without the ceiling
ScheduleReconnect_Unclamped(o) ==
  [o EXCEPT !.timer_active = TRUE,
            !.timer_interval = o.reconnect_delay_,
            !.reconnect_delay_ = o.reconnect_delay_ * 2]

\* DiscordRPC::ScheduleReconnect
ScheduleReconnect(o) ==
  [o EXCEPT !.timer_active = TRUE,
            !.timer_interval = o.reconnect_delay_,
            !.reconnect_delay_ = qMin(o.reconnect_delay_ * 2, kReconnectMaxDelayMs)]

\* DiscordRPC::CreateHandshakeMessage: the QJsonObject that is serialised
CreateHandshakeMessage ==
  [v |-> kRpcVersion, client_id |-> application_id_]

\* QJsonDocument(obj).toJson(QJsonDocument::Compact): the bytes of outgoing
\* documents are not spelled out, a text is known by the document it encodes
ToJson(obj) == [compact |-> obj]

\* static_cast<quint32>(data.size()) of such a text
DataSize(data) == [sizeof |-> data]

\* DiscordRPC::SendHandshake
SendHandshake(o) ==
  LET handshake_data == ToJson(CreateHandshakeMessage)
  IN  SocketWrite(o, OpHandshake, DataSize(handshake_data), handshake_data)

\* OnConnected that leaves the delay as it is
OnConnected_NoReset(o) ==
  SendHandshake([o EXCEPT !.state_ = "SentHandshake", !.failures = 0])

\* DiscordRPC::OnConnected
OnConnected(o) ==
  SendHandshake([o EXCEPT !.state_ = "SentHandshake",
                          !.reconnect_delay_ = kReconnectMinDelayMs,
                          !.failures = 0])

\* OnDisconnected that keeps the receive buffer
OnDisconnected_BufferKept(o) ==
  ScheduleReconnect([o EXCEPT !.state_ = "Disconnected",
                              !.failures = @ + 1])

\* OnDisconnected that schedules nothing
OnDisconnected_NoReconnect(o) ==
  [o EXCEPT !.state_ = "Disconnected",
            !.read_buffer_ = << >>,
            !.failures = @ + 1]

\* DiscordRPC::OnDisconnected
OnDisconnected(o) ==
  ScheduleReconnect([o EXCEPT !.state_ = "Disconnected",
                              !.read_buffer_ = << >>,
                              !.failures = @ + 1])

\* DiscordRPC::OnError
OnError(o) == o

\* QLocalSocket::disconnectFromServer: nothing is left to write, so the
\* socket closes and emits disconnected() before the call returns
DisconnectFromServer(o) ==
  IF o.socket_state = "Unconnected" THEN o
  ELSE OnDisconnected([o EXCEPT !.socket_state = "Unconnected"])

\* DiscordRPC::ConnectToDiscord; `reachable`: some candidate endpoint of the
\* scan accepts the connection.  A candidate that accepts makes the socket
\* emit connected() before waitForConnected returns; one that refuses makes
\* it emit errorOccurred() and no disconnected().
ConnectToDiscord(o, reachable) ==
  IF o.state_ # "Disconnected" THEN o
  ELSE LET c == [o EXCEPT !.state_ = "Connecting"]
       IN  IF c.socket_state = "Connected"
           THEN \* connectToServer refuses, waitForConnected answers true
                OnError(c)
           ELSE IF reachable
           THEN OnConnected([c EXCEPT !.socket_state = "Connected"])
           ELSE ScheduleReconnect([OnError(c) EXCEPT !.state_ = "Disconnected",
                                                     !.failures = @ + 1])

\* Initialize that starts an attempt whatever the state
Initialize_EveryState(o, reachable) ==
  ConnectToDiscord([o EXCEPT !.state_ = "Disconnected"], reachable)

\* DiscordRPC::Initialize
Initialize(o, reachable) ==
  IF o.state_ # "Disconnected" THEN o
  ELSE ConnectToDiscord(o, reachable)

\* Shutdown that leaves the timer running
Shutdown_TimerKept(o) ==
  LET closed == IF o.socket_state # "Unconnected"
                THEN DisconnectFromServer(o)
                ELSE o
  IN  [closed EXCEPT !.state_ = "Disconnected"]

\* DiscordRPC::Shutdown
Shutdown(o) ==
  LET stopped == [o EXCEPT !.timer_active = FALSE]
      closed == IF stopped.socket_state # "Unconnected"
                THEN DisconnectFromServer(stopped)
                ELSE stopped
  IN  [closed EXCEPT !.state_ = "Disconnected"]

\* DiscordRPC::OnReconnectTimer; the single-shot timer is inactive once fired
OnReconnectTimer(o, reachable) ==
  ConnectToDiscord([o EXCEPT !.timer_active = FALSE], reachable)

\* DiscordRPC::IsConnected
IsConnected(o) == o.state_ = "Connected"

\* HandleMessage that looks at evt alone
HandleMessage_EvtAlone(o, data) ==
  LET doc == ParseJson(data)
  IN  IF doc.error \/ ~doc.isObject THEN o
      ELSE IF o.state_ = "SentHandshake" /\ ValueToString(doc.object, "evt") = "READY"
           THEN [o EXCEPT !.state_ = "Connected"]
           ELSE o

\* DiscordRPC::HandleMessage
HandleMessage(o, data) ==
  LET doc == ParseJson(data)
  IN  IF doc.error \/ ~doc.isObject THEN o
      ELSE LET obj == doc.object
               cmd == ValueToString(obj, "cmd")
               evt == ValueToString(obj, "evt")
           IN  IF o.state_ = "SentHandshake" /\ cmd = "DISPATCH" /\ evt = "READY"
               THEN [o EXCEPT !.state_ = "Connected"]
               ELSE o

\* a switch that answers a Ping with an empty Pong
Dispatch_EmptyPong(o, opcode, length, message_data) ==
  CASE opcode = ToU32(OpFrame) -> HandleMessage(o, message_data)
    [] opcode = ToU32(OpClose) -> DisconnectFromServer(o)
    [] opcode = ToU32(OpPing)  -> SocketWrite(o, OpPong, ToU32(0), << >>)
    [] OTHER -> o

\* the switch of ProcessIncomingData (discordrpc.cpp:245-269)
Dispatch(o, opcode, length, message_data) ==
  CASE opcode = ToU32(OpFrame) -> HandleMessage(o, message_data)
    [] opcode = ToU32(OpClose) -> DisconnectFromServer(o)
    [] opcode = ToU32(OpPing)  -> SocketWrite(o, OpPong, length, message_data)
    [] OTHER -> o

\* the size of the frame header, sizeof(opcode) + sizeof(length)
header_size == 8

\* the loop condition of ProcessIncomingData (discordrpc.cpp:226)
HeaderComplete(o) ==
  Len(o.read_buffer_) >= 8

\* a decoder that takes the frame as soon as its header is there
MessageComplete_HeaderOnly(o) ==
  TRUE

\* "Check if we have the full message" (discordrpc.cpp:232-238), negated
MessageComplete(o) ==
  LET length == ReadU32(o.read_buffer_, 4)
  IN  IF ToInt32(length) > 2147483647 - header_size
      THEN o.overflow_complete
      ELSE ~(Len(o.read_buffer_) < header_size + ToInt32(length))

\* a turn that removes the header and leaves the payload in the buffer
DecodeOne_HeaderOnly(o) ==
  LET opcode == ReadU32(o.read_buffer_, 0)
      length == ReadU32(o.read_buffer_, 4)
      message_data == Mid(o.read_buffer_, header_size, ToSize(length))
      taken == [o EXCEPT !.read_buffer_ = Remove(@, 0, header_size)]
      done == Dispatch(taken, opcode, length, message_data)
  IN  [done EXCEPT !.dispatched =
         Append(@, [opcode |-> opcode, payload |-> message_data,
                    before |-> o.state_, after |-> done.state_])]

\* one turn of the loop of ProcessIncomingData on a complete message
\* (discordrpc.cpp:228-269): extract it, remove it, act on its opcode
DecodeOne(o) ==
  LET opcode == ReadU32(o.read_buffer_, 0)
      length == ReadU32(o.read_buffer_, 4)
      message_data == Mid(o.read_buffer_, header_size, ToSize(length))
      taken == [o EXCEPT !.read_buffer_ =
                  Remove(@, 0, ToSize(U32Add(ToU32(header_size), length)))]
      done == Dispatch(taken, opcode, length, message_data)
  IN  [done EXCEPT !.dispatched =
         Append(@, [opcode |-> opcode, payload |-> message_data,
                    before |-> o.state_, after |-> done.state_])]

\* a decoder that handles one message for each call
ProcessIncomingData_FirstOnly(o) ==
  IF HeaderComplete(o) /\ MessageComplete(o) THEN DecodeOne(o) ELSE o

\* DiscordRPC::ProcessIncomingData.  A turn of the loop that leaves the
\* buffer, the state and the socket as it found them is followed by the same
\* turn for ever: the call does not return.
RECURSIVE ProcessIncomingData(_)
ProcessIncomingData(o) ==
  IF HeaderComplete(o) /\ MessageComplete(o)
  THEN LET turned == DecodeOne(o)
       IN  IF /\ turned.read_buffer_ = o.read_buffer_
              /\ turned.state_ = o.state_
              /\ turned.socket_state = o.socket_state
           THEN [turned EXCEPT !.hung = TRUE]
           ELSE ProcessIncomingData(turned)
  ELSE o

\* OnReadyRead that replaces the buffer by what was read
OnReadyRead_Replaces(o, bytes) ==
  ProcessIncomingData([o EXCEPT !.read_buffer_ = bytes])

\* DiscordRPC::OnReadyRead; `bytes` is what socket_->readAll() returns
OnReadyRead(o, bytes) ==
  ProcessIncomingData([o EXCEPT !.read_buffer_ = @ \o bytes])

(***************************************************************************)
(* Presence messages.                                                      *)
(***************************************************************************)
\* struct DiscordPresence and its default constructor
DefaultPresence ==
  [type |-> 0, status_display_type |-> 0,
   name |-> "", state |-> "", details |-> "",
   start_timestamp |-> 0, end_timestamp |-> 0,
   large_image_key |-> "", large_image_text |-> "",
   small_image_key |-> "", small_image_text |-> "",
   party_id |-> "", party_size |-> 0, party_max |-> 0, party_privacy |-> 0,
   match_secret |-> "", join_secret |-> "", spectate_secret |-> "",
   instance |-> FALSE]

\* obj[key] = value, done whatever the condition
Member_Always(cond, key, value) == key :> value

\* obj[key] = value, done only when `cond` holds
Member(cond, key, value) == IF cond THEN key :> value ELSE << >>

\* QString::number(n) for n >= 0
RECURSIVE Number(_)
Number(n) ==
  LET digit == << "0", "1", "2", "3", "4", "5", "6", "7", "8", "9" >>
  IN  IF n < 10 THEN digit[n + 1] ELSE Number(n \div 10) \o digit[(n % 10) + 1]

\* the `activity` object of CreatePresenceMessage (discordrpc.cpp:321-398)
Activity(presence) ==
  LET timestamps ==
           Member(presence.start_timestamp > 0, "start", presence.start_timestamp)
        @@ Member(presence.end_timestamp > 0, "end", presence.end_timestamp)
      assets ==
           Member(presence.large_image_key # "", "large_image", presence.large_image_key)
        @@ Member(presence.large_image_text # "", "large_text", presence.large_image_text)
        @@ Member(presence.small_image_key # "", "small_image", presence.small_image_key)
        @@ Member(presence.small_image_text # "", "small_text", presence.small_image_text)
      party ==
           Member(presence.party_id # "", "id", presence.party_id)
        @@ Member(presence.party_size > 0 /\ presence.party_max > 0, "size",
                  << presence.party_size, presence.party_max >>)
        @@ Member(presence.party_privacy > 0, "privacy", presence.party_privacy)
      secrets ==
           Member(presence.match_secret # "", "match", presence.match_secret)
        @@ Member(presence.join_secret # "", "join", presence.join_secret)
        @@ Member(presence.spectate_secret # "", "spectate", presence.spectate_secret)
  IN     Member(presence.type >= 0 /\ presence.type <= 5, "type", presence.type)
      @@ Member(presence.type >= 0 /\ presence.type <= 5, "status_display_type",
                presence.status_display_type)
      @@ Member(presence.name # "", "name", presence.name)
      @@ Member(presence.state # "", "state", presence.state)
      @@ Member(presence.details # "", "details", presence.details)
      @@ Member(presence.start_timestamp > 0 \/ presence.end_timestamp > 0,
                "timestamps", timestamps)
      @@ Member(presence.large_image_key # "" \/ presence.large_image_text # "" \/
                presence.small_image_key # "" \/ presence.small_image_text # "",
                "assets", assets)
      @@ Member(presence.party_id # "" \/ presence.party_size > 0 \/
                presence.party_max > 0 \/ presence.party_privacy > 0,
                "party", party)
      @@ Member(presence.match_secret # "" \/ presence.join_secret # "" \/
                presence.spectate_secret # "",
                "secrets", secrets)
      @@ Member(TRUE, "instance", presence.instance)

\* CreatePresenceMessage that leaves nonce_ as it is
CreatePresenceMessage_NonceKept(o, presence) ==
  [data |-> ToJson([cmd |-> "SET_ACTIVITY",
                    nonce |-> Number(o.nonce_),
                    args |-> [pid |-> pid, activity |-> Activity(presence)]]),
   object |-> o]

\* DiscordRPC::CreatePresenceMessage: the text built, and the object after
\* nonce_++
CreatePresenceMessage(o, presence) ==
  [data |-> ToJson([cmd |-> "SET_ACTIVITY",
                    nonce |-> Number(o.nonce_),
                    args |-> [pid |-> pid, activity |-> Activity(presence)]]),
   object |-> [o EXCEPT !.nonce_ = @ + 1]]

\* DiscordRPC::SendFrame
SendFrame(o, data) ==
  IF o.state_ # "Connected" THEN o
  ELSE SocketWrite(o, OpFrame, DataSize(data), data)

\* UpdatePresence that builds the message in every state
UpdatePresence_Unguarded(o, presence) ==
  LET made == CreatePresenceMessage(o, presence)
  IN  SendFrame(made.object, made.data)

\* DiscordRPC::UpdatePresence
UpdatePresence(o, presence) ==
  IF o.state_ = "Connected"
  THEN LET made == CreatePresenceMessage(o, presence)
       IN  SendFrame(made.object, made.data)
  ELSE o

\* ClearPresence that publishes a Presence without a type
ClearPresence_NoType(o) ==
  LET empty_presence == [DefaultPresence EXCEPT !.type = -1]
  IN  UpdatePresence(o, empty_presence)

\* DiscordRPC::ClearPresence
ClearPresence(o) ==
  LET empty_presence == DefaultPresence
  IN  UpdatePresence(o, empty_presence)

(***************************************************************************)
(* The state machine: the object, its peer and its caller.                 *)
(***************************************************************************)
VARIABLES
  state_, nonce_, reconnect_delay_, read_buffer_,   \* members of DiscordRPC
  timer_active, timer_interval,                     \* reconnect_timer_
  socket_state,                                     \* socket_
  written, dispatched, failures,                    \* see `the object` above
  decoded,       \* how many pairs the call or event that ran last extracted
  wire,          \* bytes the peer has written and readAll() has not returned
  peer_frames,   \* the frames the peer has written on this connection
  last,          \* the last call or event: its name, and whether the one
                 \* before it was the same
  initialized,   \* Initialize() has been called
  shut,          \* Shutdown() has been called and Initialize() not since
  dropped,       \* a presence call has been made while not Connected
  hung           \* see `the object` above

vars ==
  << state_, nonce_, reconnect_delay_, read_buffer_, timer_active, timer_interval,
     socket_state, written, dispatched, failures, decoded, wire, peer_frames,
     last, initialized, shut, dropped, hung >>

\* the object in the current state, as a call or an event finds it
Object ==
  [state_ |-> state_,
   nonce_ |-> nonce_,
   reconnect_delay_ |-> reconnect_delay_,
   read_buffer_ |-> read_buffer_,
   timer_active |-> timer_active,
   timer_interval |-> timer_interval,
   socket_state |-> socket_state,
   written |-> << >>,
   dispatched |-> dispatched,
   failures |-> failures,
   hung |-> hung,
   overflow_complete |-> Constructed.overflow_complete]

\* the call or event leaves the object as o
Becomes(o) ==
  /\ state_' = o.state_
  /\ nonce_' = o.nonce_
  /\ reconnect_delay_' = o.reconnect_delay_
  /\ read_buffer_' = o.read_buffer_
  /\ timer_active' = o.timer_active
  /\ timer_interval' = o.timer_interval
  /\ socket_state' = o.socket_state
  /\ written' = o.written
  /\ dispatched' = IF o.socket_state = "Connected" THEN o.dispatched ELSE << >>
  /\ decoded' = Len(o.dispatched) - Len(dispatched)
  /\ failures' = o.failures
  /\ hung' = o.hung

Called(op) ==
  last' = [op |-> op, repeated |-> last.op = op]

\* what the peer may write: a frame of each opcode it sends, and Frame
\* payloads that are the READY object, another object, and no JSON at all
PeerFrames ==
  << [opcode |-> OpFrame, payload |-> TextReady],
     [opcode |-> OpFrame, payload |-> TextEvtOnly],
     [opcode |-> OpFrame, payload |-> TextBroken],
     [opcode |-> OpPing, payload |-> << 7, 9 >>],
     [opcode |-> OpClose, payload |-> << >>],
     [opcode |-> OpPong, payload |-> << >>] >>

\* what the caller may publish
Presences ==
  { [DefaultPresence EXCEPT !.name = "Listening", !.state = "Track"],
    [DefaultPresence EXCEPT !.type = 2, !.details = "Album",
                            !.start_timestamp = 10, !.large_image_key = "cover",
                            !.party_size = 1, !.instance = TRUE] }

Init ==
  /\ state_ = Constructed.state_
  /\ nonce_ = Constructed.nonce_
  /\ reconnect_delay_ = Constructed.reconnect_delay_
  /\ read_buffer_ = Constructed.read_buffer_
  /\ timer_active = Constructed.timer_active
  /\ timer_interval = Constructed.timer_interval
  /\ socket_state = Constructed.socket_state
  /\ written = Constructed.written
  /\ dispatched = Constructed.dispatched
  /\ failures = Constructed.failures
  /\ decoded = 0
  /\ wire = << >>
  /\ peer_frames = << >>
  /\ last = [op |-> "DiscordRPC", repeated |-> FALSE]
  /\ initialized = FALSE
  /\ shut = FALSE
  /\ dropped = FALSE
  /\ hung = Constructed.hung

\* the transport after a handler that leaves the object as o: what is in
\* flight stays in flight while the same connection lasts
SameTransport(o) ==
  IF socket_state = "Connected" /\ o.socket_state = "Connected"
  THEN UNCHANGED << wire, peer_frames >>
  ELSE wire' = << >> /\ peer_frames' = << >>

\* the caller calls Initialize()
CallInitialize(reachable) ==
  /\ ~reachable => failures < MaxFailures
  /\ LET o == Initialize(Object, reachable)
     IN  Becomes(o) /\ SameTransport(o)
  /\ Called("Initialize")
  /\ initialized' = TRUE
  /\ shut' = FALSE
  /\ UNCHANGED dropped

\* the caller calls Shutdown()
CallShutdown ==
  /\ LET o == Shutdown(Object)
     IN  Becomes(o) /\ SameTransport(o)
  /\ Called("Shutdown")
  /\ shut' = TRUE
  /\ UNCHANGED << initialized, dropped >>

\* reconnect_timer_ emits timeout()
TimerFires(reachable) ==
  /\ timer_active
  /\ ~reachable => failures < MaxFailures
  /\ LET o == OnReconnectTimer(Object, reachable)
     IN  Becomes(o) /\ SameTransport(o)
  /\ Called("OnReconnectTimer")
  /\ UNCHANGED << initialized, shut, dropped >>

\* the peer writes one whole frame
PeerWrites(i) ==
  /\ socket_state = "Connected"
  /\ Len(peer_frames) < MaxPeerFrames
  /\ wire' = wire \o EncodeFrame(PeerFrames[i].opcode, PeerFrames[i].payload)
  /\ peer_frames' = Append(peer_frames, PeerFrames[i])
  /\ Called("PeerWrites")
  /\ written' = << >>
  /\ decoded' = 0
  /\ UNCHANGED << state_, nonce_, reconnect_delay_, read_buffer_, timer_active,
                  timer_interval, socket_state, dispatched, failures,
                  initialized, shut, dropped, hung >>

\* socket_ emits readyRead(): readAll() returns the first k bytes in flight
SocketReadyRead(k) ==
  /\ socket_state = "Connected"
  /\ \E o \in { OnReadyRead([Object EXCEPT !.overflow_complete = complete],
                             SubSeq(wire, 1, k)) : complete \in BOOLEAN } :
         /\ Becomes(o)
         /\ IF o.socket_state = "Connected"
            THEN wire' = SubSeq(wire, k + 1, Len(wire)) /\ UNCHANGED peer_frames
            ELSE wire' = << >> /\ peer_frames' = << >>
  /\ Called("OnReadyRead")
  /\ UNCHANGED << initialized, shut, dropped >>

\* the peer closes or the transport fails: socket_ emits errorOccurred() and
\* disconnected()
PeerDrops ==
  /\ socket_state = "Connected"
  /\ LET o == OnDisconnected(OnError([Object EXCEPT !.socket_state = "Unconnected"]))
     IN  Becomes(o) /\ SameTransport(o)
  /\ Called("OnDisconnected")
  /\ UNCHANGED << initialized, shut, dropped >>

\* the caller calls UpdatePresence(presence)
CallUpdatePresence(presence) ==
  /\ nonce_ <= MaxNonce
  /\ LET o == UpdatePresence(Object, presence)
     IN  Becomes(o) /\ SameTransport(o)
  /\ Called("UpdatePresence")
  /\ dropped' = (dropped \/ state_ # "Connected")
  /\ UNCHANGED << initialized, shut >>

\* the caller calls ClearPresence()
CallClearPresence ==
  /\ nonce_ <= MaxNonce
  /\ LET o == ClearPresence(Object)
     IN  Becomes(o) /\ SameTransport(o)
  /\ Called("ClearPresence")
  /\ dropped' = (dropped \/ state_ # "Connected")
  /\ UNCHANGED << initialized, shut >>

(***************************************************************************)
(* Spec: the connection machine under every call of its caller, with a     *)
(* peer that may be unreachable, answers READY, pings, closes or drops,    *)
(* and a transport that hands over what is in flight in one read.          *)
(***************************************************************************)
\* READY, Ping and Close
MachineFrames == {1, 4, 5}

Next ==
  \/ \E reachable \in BOOLEAN : CallInitialize(reachable)
  \/ CallShutdown
  \/ \E reachable \in BOOLEAN : TimerFires(reachable)
  \/ \E i \in MachineFrames : PeerWrites(i)
  \/ \E k \in {Len(wire)} \ {0} : SocketReadyRead(k)
  \/ PeerDrops
  \/ \E presence \in Presences : CallUpdatePresence(presence)
  \/ CallClearPresence

Spec == Init /\ [][Next]_vars

(***************************************************************************)
(* SpecDecoder: the frame decoder under every frame of the catalogue and   *)
(* every way the transport may split the bytes in flight into reads, with  *)
(* a caller that calls Initialize() once and a peer that is reachable      *)
(* whenever the client connects; reconnects are the timer's.               *)
(***************************************************************************)
NextDecoder ==
  \/ ~initialized /\ CallInitialize(TRUE)
  \/ TimerFires(TRUE)
  \/ \E i \in 1..Len(PeerFrames) : PeerWrites(i)
  \/ \E k \in 1..Len(wire) : SocketReadyRead(k)
  \/ PeerDrops

SpecDecoder == Init /\ [][NextDecoder]_vars

(***************************************************************************)
(* SpecReconnect: the connection machine without Shutdown(), with a peer   *)
(* that answers a handshake it has not answered yet, and with the event    *)
(* loop doing its part: a timer that is armed fires, and bytes that have   *)
(* arrived are handed over by readyRead().                                 *)
(***************************************************************************)
\* the peer answers the handshake of this connection with READY
PeerAnswersHandshake ==
  /\ socket_state = "Connected"
  /\ state_ = "SentHandshake"
  /\ \A n \in 1..Len(peer_frames) : peer_frames[n] # PeerFrames[1]
  /\ wire' = wire \o EncodeFrame(PeerFrames[1].opcode, PeerFrames[1].payload)
  /\ peer_frames' = Append(peer_frames, PeerFrames[1])
  /\ Called("PeerWrites")
  /\ written' = << >>
  /\ decoded' = 0
  /\ UNCHANGED << state_, nonce_, reconnect_delay_, read_buffer_, timer_active,
                  timer_interval, socket_state, dispatched, failures,
                  initialized, shut, dropped, hung >>

NextReconnect ==
  \/ \E reachable \in BOOLEAN : CallInitialize(reachable)
  \/ \E reachable \in BOOLEAN : TimerFires(reachable)
  \/ \E i \in MachineFrames : PeerWrites(i)
  \/ PeerAnswersHandshake
  \/ \E k \in {Len(wire)} \ {0} : SocketReadyRead(k)
  \/ PeerDrops

\* what a step of SocketReadyRead that reads all that is in flight does to
\* the transport; no other step of NextReconnect does it, and it can be
\* taken whenever bytes are in flight on a connected socket
ReadyReadDelivered ==
  /\ socket_state = "Connected"
  /\ wire # << >>
  /\ wire' = << >>
  /\ Called("OnReadyRead")

SpecReconnect ==
  /\ Init
  /\ [][NextReconnect]_vars
  /\ WF_vars(\E reachable \in BOOLEAN : TimerFires(reachable))
  /\ WF_wire(ReadyReadDelivered)

(***************************************************************************)
(* SpecLengths: the frame decoder facing a peer whose headers declare any  *)
(* length: that of the payload, one above the maximum frame size, and      *)
(* values around 2^31 and 2^32, where the casts and sums of the decoder    *)
(* leave the range of int or wrap.  Two payload bytes follow each header.  *)
(* Reads split the bytes anywhere.                                         *)
(***************************************************************************)
\* the length fields the peer declares: 2, 65537, 2^31 - 1, 2^31, 2^32 - 8
\* and 2^32 - 1
Lengths ==
  { [hi |-> 0, lo |-> 2],
    [hi |-> 1, lo |-> 1],
    [hi |-> 32767, lo |-> 65535],
    [hi |-> 32768, lo |-> 0],
    [hi |-> 65535, lo |-> 65528],
    [hi |-> 65535, lo |-> 65535] }

\* the peer writes a header (opcode, length) and two bytes of payload
PeerWritesHeader(opcode, length) ==
  /\ socket_state = "Connected"
  /\ Len(peer_frames) < MaxPeerFrames
  /\ wire' = wire \o AppendU32(ToU32(opcode)) \o AppendU32(length) \o << 7, 9 >>
  /\ peer_frames' = Append(peer_frames, [opcode |-> opcode, length |-> length,
                                         payload |-> << 7, 9 >>])
  /\ Called("PeerWrites")
  /\ written' = << >>
  /\ decoded' = 0
  /\ UNCHANGED << state_, nonce_, reconnect_delay_, read_buffer_, timer_active,
                  timer_interval, socket_state, dispatched, failures,
                  initialized, shut, dropped, hung >>

\* nothing runs on the thread of the object once it hangs
NextLengths ==
  \/ ~hung /\ ~initialized /\ CallInitialize(TRUE)
  \/ \E opcode \in {OpFrame, OpPing} : \E length \in Lengths :
       PeerWritesHeader(opcode, length)
  \/ ~hung /\ \E k \in 1..Len(wire) : SocketReadyRead(k)

SpecLengths == Init /\ [][NextLengths]_vars

(***************************************************************************)
(* Properties of the connection machine, under Spec.                       *)
(***************************************************************************)

\* C1: once Shutdown() has been called, and until Initialize() is called
\* again, the reconnect timer is not armed and no connection attempt has
\* moved the machine out of Disconnected.
C1_NoReconnectAfterShutdown ==
  shut => (~timer_active /\ state_ = "Disconnected")

\* C2: the reconnect delay falls back (to the floor) only in a step that
\* reaches Connected; a step that reaches SentHandshake leaves it as it was.
C2_ResetOnlyOnConnected ==
  [][ /\ reconnect_delay_' < reconnect_delay_
         => (state_ # "Connected" /\ state_' = "Connected")
      /\ (state_ # "SentHandshake" /\ state_' = "SentHandshake")
         => reconnect_delay_' = reconnect_delay_ ]_vars

\* C3: after n failures in a row (failed scans, transport drops) since the
\* socket last connected, the reconnect delay is min(F * 2^n, C); it is
\* never below the floor F and never above the ceiling C.
C3_DelayIsCappedDoubling ==
  LET doubled == kReconnectMinDelayMs * 2^failures
  IN  /\ reconnect_delay_ =
           IF doubled < kReconnectMaxDelayMs THEN doubled ELSE kReconnectMaxDelayMs
      /\ kReconnectMinDelayMs <= reconnect_delay_
      /\ reconnect_delay_ <= kReconnectMaxDelayMs

\* the ceiling has cut a doubling short: 500 * 2^7 is above 60000
C3_Witness ==
  /\ failures = 7
  /\ reconnect_delay_ = kReconnectMaxDelayMs
  /\ timer_active
  /\ timer_interval = 32000

\* C4: when the transport connect succeeds the machine is in SentHandshake
\* and the reconnect delay is the floor, whatever it was; the delay stays at
\* the floor while the transport is connected, so the timer armed when that
\* connection ends is armed with the floor.
C4_ConnectResetsDelay ==
  [][ /\ (socket_state = "Unconnected" /\ socket_state' = "Connected")
         => (state_' = "SentHandshake" /\ reconnect_delay_' = kReconnectMinDelayMs)
      /\ socket_state' = "Connected"
         => reconnect_delay_' = kReconnectMinDelayMs
      /\ (socket_state = "Connected" /\ socket_state' = "Unconnected")
         => (timer_active' /\ timer_interval' = kReconnectMinDelayMs) ]_vars

\* a connect has succeeded after failures had raised the delay: the timer
\* that led to it had been armed with four times the floor
C4_Witness ==
  /\ state_ = "SentHandshake"
  /\ last.op = "OnReconnectTimer"
  /\ timer_interval = 4 * kReconnectMinDelayMs
  /\ reconnect_delay_ = kReconnectMinDelayMs

\* C5: a Shutdown() that follows a Shutdown(), or that no Initialize() has
\* preceded, leaves the machine Disconnected with no timer pending, sends no
\* frame and changes neither nonce, reconnect delay nor receive buffer.
C5_ShutdownIdempotent ==
  [][ (last'.op = "Shutdown" /\ (last.op = "Shutdown" \/ ~initialized))
      => /\ state_' = "Disconnected"
         /\ ~timer_active'
         /\ socket_state' = "Unconnected"
         /\ written' = << >>
         /\ UNCHANGED << state_, socket_state, nonce_, reconnect_delay_, read_buffer_ >> ]_vars

\* Shutdown() twice in a row, the first of which closed a live connection
C5_Witness ==
  /\ last = [op |-> "Shutdown", repeated |-> TRUE]
  /\ initialized
  /\ failures = 1
  /\ ~timer_active

\* C9: a presence call made while the state is not Connected writes no
\* frame and changes nothing (no nonce is taken, nothing is kept for later);
\* and a step that writes a Frame-opcode frame is a presence call made while
\* Connected, so nothing of an earlier call is sent on reaching Connected.
C9_PresenceDroppedUnlessConnected ==
  [][ /\ (last'.op \in {"UpdatePresence", "ClearPresence"} /\ state_ # "Connected")
         => /\ written' = << >>
            /\ UNCHANGED << state_, nonce_, reconnect_delay_, read_buffer_,
                            timer_active, timer_interval, socket_state >>
      /\ (\E n \in 1..Len(written') : written'[n].opcode = OpFrame)
         => (last'.op \in {"UpdatePresence", "ClearPresence"} /\ state_ = "Connected") ]_vars

\* READY has just taken the machine to Connected after a presence call was
\* dropped, and nothing was written
C9_Witness ==
  /\ dropped
  /\ state_ = "Connected"
  /\ last.op = "OnReadyRead"
  /\ nonce_ = 1
  /\ written = << >>

\* C13: Initialize() called in SentHandshake or in Connected starts no
\* attempt, writes no handshake and leaves state, receive buffer, timer,
\* reconnect delay, nonce and socket as they are; called in Disconnected it
\* ends either in SentHandshake on a connected socket with the handshake
\* written, or in Disconnected with the reconnect timer armed and nothing
\* written.
C13_InitializeOnlyWhenDisconnected ==
  [][ last'.op = "Initialize"
      => /\ state_ \in {"SentHandshake", "Connected"}
            => /\ written' = << >>
               /\ UNCHANGED << state_, read_buffer_, timer_active, timer_interval,
                               reconnect_delay_, nonce_, socket_state >>
         /\ state_ = "Disconnected"
            => \/ /\ state_' = "SentHandshake"
                  /\ socket_state' = "Connected"
                  /\ Len(written') = 1
                  /\ written'[1].opcode = OpHandshake
                  /\ written'[1].data = ToJson(CreateHandshakeMessage)
               \/ /\ state_' = "Disconnected"
                  /\ socket_state' = "Unconnected"
                  /\ timer_active'
                  /\ written' = << >> ]_vars

\* Initialize() has been called in Connected, and nothing was written
C13_Witness ==
  /\ last.op = "Initialize"
  /\ state_ = "Connected"
  /\ written = << >>

\* the presence frames among the frames fs, in order
RECURSIVE PresenceFrames(_)
PresenceFrames(fs) ==
  IF fs = << >> THEN << >>
  ELSE IF Head(fs).opcode = OpFrame
       THEN << Head(fs) >> \o PresenceFrames(Tail(fs))
       ELSE PresenceFrames(Tail(fs))

\* C14: the nonces of the presence frames sent are 1, 2, 3, ... in the
\* order of sending, whatever calls, disconnections, reconnects and
\* Shutdown()/Initialize() cycles come between them: nonce_ starts at 1, a
\* step sends at most one presence frame, the frame carries QString::number
\* of nonce_ and nonce_ grows by one, and a step that sends no presence
\* frame (a dropped presence call among them) leaves nonce_ as it is.
C14_NoncesIncreaseFromOne ==
  /\ nonce_ = 1
  /\ [][ LET sent == PresenceFrames(written')
         IN  IF sent = << >>
             THEN nonce_' = nonce_
             ELSE /\ Len(sent) = 1
                  /\ sent[1].data.compact.nonce = Number(nonce_)
                  /\ nonce_' = nonce_ + 1
                  /\ nonce_ >= 1 ]_vars

\* the second presence frame, nonce "2", has been sent on a connection made
\* after a disconnection, and a presence call had been dropped before
C14_Witness ==
  /\ last.op \in {"UpdatePresence", "ClearPresence"}
  /\ dropped
  /\ timer_interval = kReconnectMinDelayMs
  /\ Len(written) = 1
  /\ written[1].data.compact.nonce = "2"
  /\ nonce_ = 3

\* presence sets name and state and leaves every other field as the
\* default constructor made it
NameAndStateOnly(presence) ==
  /\ presence.name # ""
  /\ presence.state # ""
  /\ presence = [DefaultPresence EXCEPT !.name = presence.name,
                                        !.state = presence.state]

\* the `activity` objects of the presence frames that the call that ran
\* last has sent for a Presence of the caller that sets only name and state
NameAndStateActivities ==
  { written[n].data.compact.args.activity :
      n \in { m \in 1..Len(written) :
                /\ written[m].opcode = OpFrame
                /\ \E presence \in Presences :
                     /\ NameAndStateOnly(presence)
                     /\ written[m].data.compact.args.activity = Activity(presence) } }

\* C15 as claimed: the activity sent for a Presence that sets only name
\* and state has exactly the keys name, state and instance, instance being
\* false.
C15_OnlyNameStateInstance ==
  \A activity \in NameAndStateActivities :
    /\ DOMAIN activity = {"name", "state", "instance"}
    /\ activity["instance"] = FALSE

\* C15: the activity sent for a Presence that sets only name and state has
\* exactly the keys type, status_display_type, name, state and instance:
\* type and status_display_type are 0 (the default type is within 0..5),
\* instance is false, and no timestamps, assets, party, secrets or details
\* key is there.
C15_NameStateInstanceAndType ==
  \A activity \in NameAndStateActivities :
    /\ DOMAIN activity = {"type", "status_display_type", "name", "state", "instance"}
    /\ activity["type"] = 0
    /\ activity["status_display_type"] = 0
    /\ activity["name"] # ""
    /\ activity["state"] # ""
    /\ activity["instance"] = FALSE

\* UpdatePresence has sent the frame of a Presence with name "Listening"
\* and state "Track"
C15_Witness ==
  /\ last.op = "UpdatePresence"
  /\ NameAndStateActivities # {}
  /\ \E activity \in NameAndStateActivities :
       activity["name"] = "Listening" /\ activity["state"] = "Track"

\* C16: ClearPresence() does in every state what UpdatePresence does there
\* with a default-constructed Presence: it writes the same frames (opcode,
\* length, JSON text with the same nonce) and leaves the same state, nonce,
\* reconnect delay, buffer, timer and socket.
C16_ClearIsUpdateWithDefault ==
  [][ last'.op = "ClearPresence"
      => LET updated == UpdatePresence(Object, DefaultPresence)
         IN  /\ written' = updated.written
             /\ state_' = updated.state_
             /\ nonce_' = updated.nonce_
             /\ reconnect_delay_' = updated.reconnect_delay_
             /\ read_buffer_' = updated.read_buffer_
             /\ timer_active' = updated.timer_active
             /\ timer_interval' = updated.timer_interval
             /\ socket_state' = updated.socket_state ]_vars

\* ClearPresence() in Connected has sent the frame of the default Presence
C16_Witness ==
  /\ last.op = "ClearPresence"
  /\ state_ = "Connected"
  /\ Len(written) = 1
  /\ written[1].opcode = OpFrame
  /\ written[1].data.compact.nonce = "1"
  /\ written[1].data.compact.args.activity =
       [type |-> 0, status_display_type |-> 0, instance |-> FALSE]

(***************************************************************************)
(* Properties of the frame decoder, under SpecDecoder.                     *)
(***************************************************************************)

\* bytes of the frames in fs on the wire
RECURSIVE WireSize(_)
WireSize(fs) ==
  IF fs = << >> THEN 0 ELSE 8 + Len(Head(fs).payload) + WireSize(Tail(fs))

\* how many of the frames in fs, from the first on, lie wholly within the
\* first n bytes of the stream
RECURSIVE WholeFrames(_, _)
WholeFrames(fs, n) ==
  IF fs = << >> \/ 8 + Len(Head(fs).payload) > n THEN 0
  ELSE 1 + WholeFrames(Tail(fs), n - (8 + Len(Head(fs).payload)))

\* bytes of this connection that readAll() has returned, given what is in
\* flight
Delivered(inflight) == WireSize(peer_frames) - Len(inflight)

\* the pair (opcode, payload) at place n of the decoder's output is the
\* frame the peer wrote at place n
SameFrame(event, frame) ==
  /\ event.opcode = [hi |-> 0, lo |-> frame.opcode]
  /\ event.payload = frame.payload

\* C6: however the bytes of a frame are split into reads, the decoder has
\* extracted a frame once, with its payload byte for byte, when its last
\* byte has been read, and not before: at any time the pairs extracted are
\* the frames whose bytes have all been read, in order.
C6_OneEventPerFrameWhenComplete ==
  socket_state = "Connected" =>
    /\ Len(dispatched) = WholeFrames(peer_frames, Delivered(wire))
    /\ \A n \in 1..Len(dispatched) : SameFrame(dispatched[n], peer_frames[n])

\* the READY frame has come in more than one read and has been extracted once
C6_Witness ==
  /\ peer_frames = << [opcode |-> OpFrame, payload |-> TextReady] >>
  /\ wire = << >>
  /\ last = [op |-> "OnReadyRead", repeated |-> TRUE]
  /\ decoded = 1
  /\ Len(dispatched) = 1
  /\ dispatched[1].payload = TextReady

\* C7: a read that completes K >= 2 frames, none of them a Close, makes the
\* decoder extract K pairs in that one call, in the order of the stream.
C7_AllFramesOfOneRead ==
  [][ LET before == WholeFrames(peer_frames, Delivered(wire))
          K == WholeFrames(peer_frames, Delivered(wire')) - before
      IN  (last'.op = "OnReadyRead" /\ socket_state' = "Connected" /\ K >= 2)
          => /\ decoded' = K
             /\ Len(dispatched') = Len(dispatched) + K
             /\ \A n \in 1..K :
                  SameFrame(dispatched'[Len(dispatched) + n], peer_frames[before + n]) ]_vars

\* one read has brought two frames, and both were extracted
C7_Witness ==
  /\ last.op = "OnReadyRead"
  /\ decoded = 2
  /\ Len(dispatched) = 2
  /\ read_buffer_ = << >>

\* the length field of the header at the front of buf, below 2^31
DeclaredLength(buf) ==
  buf[5] + 256 * buf[6] + 65536 * buf[7] + 16777216 * buf[8]

\* buf holds less than one frame
Partial(buf) ==
  \/ Len(buf) < 8
  \/ Len(buf) < 8 + DeclaredLength(buf)

\* C8: a decode run on a buffer that holds fewer than 8 bytes, or a header
\* and fewer payload bytes than it declares, extracts nothing, writes
\* nothing, changes no state and leaves the buffer as it is.
C8_PartialFrameWaits ==
  [][ LET buf == read_buffer_ \o SubSeq(wire, 1, Len(wire) - Len(wire'))
      IN  (last'.op = "OnReadyRead" /\ Partial(buf))
          => /\ read_buffer_' = buf
             /\ decoded' = 0
             /\ written' = << >>
             /\ UNCHANGED << state_, nonce_, reconnect_delay_, timer_active,
                             timer_interval, socket_state, dispatched >> ]_vars

\* a read has left a whole header and a part of the payload in the buffer
C8_Witness ==
  /\ last.op = "OnReadyRead"
  /\ Len(read_buffer_) > 8
  /\ Partial(read_buffer_)
  /\ decoded = 0

\* what HandleMessage is to make of the text `data` in state st
StateAfterMessage(st, data) ==
  IF st = "SentHandshake" /\ data = TextReady THEN "Connected" ELSE st

\* C10: a Frame whose JSON object has cmd DISPATCH and evt READY takes
\* SentHandshake to Connected and changes nothing in any other state; any
\* other Frame content leaves SentHandshake (and every state) as it is.
\* Stated of every Frame the decoder has handed to HandleMessage, and of
\* HandleMessage in each of the four states.
C10_ReadyOnlyInSentHandshake ==
  /\ \A n \in 1..Len(dispatched) :
       dispatched[n].opcode = [hi |-> 0, lo |-> OpFrame]
       => dispatched[n].after = StateAfterMessage(dispatched[n].before, dispatched[n].payload)
  /\ \A st \in State :
       \A data \in {TextReady, TextEvtOnly, TextArray, TextBroken} :
         LET o == [Object EXCEPT !.state_ = st]
         IN  HandleMessage(o, data) = [o EXCEPT !.state_ = StateAfterMessage(st, data)]

\* READY was received twice: in SentHandshake, and again in Connected
C10_Witness ==
  /\ Len(dispatched) = 2
  /\ dispatched[1].payload = TextReady
  /\ dispatched[1].before = "SentHandshake"
  /\ dispatched[1].after = "Connected"
  /\ dispatched[2].payload = TextReady
  /\ dispatched[2].before = "Connected"
  /\ state_ = "Connected"

\* the frames of fs that are Pings, in order
RECURSIVE Pings(_)
Pings(fs) ==
  IF fs = << >> THEN << >>
  ELSE IF Head(fs).opcode = [hi |-> 0, lo |-> OpPing]
       THEN << Head(fs) >> \o Pings(Tail(fs))
       ELSE Pings(Tail(fs))

\* the Pong frame that answers the extracted Ping `event`
PongFor(event) ==
  [opcode |-> OpPong,
   length |-> [hi |-> 0, lo |-> Len(event.payload)],
   data |-> event.payload]

\* C11: a Ping frame with payload P, received in SentHandshake or in
\* Connected, makes the client write exactly one Pong frame (opcode 4) with
\* the length and the payload of the Ping, and changes neither the state,
\* nor the nonce, nor the reconnect delay: the frames written by a read are
\* the Pongs of the Pings it extracted, one for each and in their order.
C11_PingAnsweredByOnePong ==
  [][ (last'.op = "OnReadyRead" /\ socket_state' = "Connected")
      => LET extracted == SubSeq(dispatched', Len(dispatched) + 1, Len(dispatched'))
             pings == Pings(extracted)
         IN  /\ Len(written') = Len(pings)
             /\ \A n \in 1..Len(pings) :
                  /\ written'[n] = PongFor(pings[n])
                  /\ pings[n].before = pings[n].after
                  /\ pings[n].before \in {"SentHandshake", "Connected"}
             /\ pings # << >> => UNCHANGED << nonce_, reconnect_delay_ >>
             /\ (pings # << >> /\ pings = extracted) => UNCHANGED state_ ]_vars

\* a Ping with payload 7, 9 has come before READY and been answered
C11_Witness ==
  /\ last.op = "OnReadyRead"
  /\ state_ = "SentHandshake"
  /\ decoded = 1
  /\ dispatched[Len(dispatched)].payload = << 7, 9 >>
  /\ written = << [opcode |-> OpPong, length |-> [hi |-> 0, lo |-> 2],
                   data |-> << 7, 9 >>] >>

(***************************************************************************)
(* Properties of reconnection, under SpecReconnect.                        *)
(***************************************************************************)

\* C12: with no Shutdown(), a machine that is Disconnected after
\* Initialize() (a scan has failed or the transport has dropped) has its
\* reconnect timer armed; and if Initialize() is called and, from some point
\* on, no scan fails and no connection ends, and the peer answers every
\* handshake with READY, then the machine reaches Connected and stays there.
C12_ReconnectsUntilConnected ==
  /\ []((state_ = "Disconnected" /\ initialized) => timer_active)
  /\ ( /\ <>initialized
       /\ <>[][failures' <= failures]_vars
       /\ WF_vars(PeerAnswersHandshake) )
     => <>[](state_ = "Connected")

\* Connected has been reached on a connection made by the timer after two
\* failures in a row
C12_Witness ==
  /\ state_ = "Connected"
  /\ last.op = "OnReadyRead"
  /\ timer_interval = 2 * kReconnectMinDelayMs
  /\ failures = 0
  /\ ~timer_active

\* the bytes of the frames fs on the wire, one after the other
RECURSIVE Stream(_)
Stream(fs) ==
  IF fs = << >> THEN << >>
  ELSE EncodeFrame(Head(fs).opcode, Head(fs).payload) \o Stream(Tail(fs))

\* C17: a step in which the transport disconnects (the peer closes, the
\* transport fails, or a Close frame is decoded), taken in SentHandshake or
\* in Connected, leaves the receive buffer empty, the state Disconnected and
\* the reconnect timer armed with the delay of the moment; the buffer stays
\* empty while there is no connection, and on a connection the buffer and
\* the bytes in flight are together the bytes of the frames this connection
\* has carried and the decoder has not extracted: no byte of an earlier
\* connection is among them.
C17_DropClearsBuffer ==
  /\ [][ (socket_state = "Connected" /\ socket_state' = "Unconnected")
         => /\ state_ \in {"SentHandshake", "Connected"}
            /\ state_' = "Disconnected"
            /\ read_buffer_' = << >>
            /\ timer_active'
            /\ timer_interval' = reconnect_delay_ ]_vars
  /\ [](socket_state = "Unconnected" => read_buffer_ = << >>)
  /\ [](socket_state = "Connected"
        => read_buffer_ \o wire =
             Stream(SubSeq(peer_frames, Len(dispatched) + 1, Len(peer_frames))))

\* a Close frame has been decoded: the socket is closed, the buffer is
\* empty and the timer is armed
C17_Witness ==
  /\ last.op = "OnReadyRead"
  /\ socket_state = "Unconnected"
  /\ state_ = "Disconnected"
  /\ read_buffer_ = << >>
  /\ timer_active
  /\ timer_interval = kReconnectMinDelayMs

\* C18: whenever the decoder has returned, the receive buffer is empty or
\* holds a strict prefix of one frame, the one the peer wrote after the
\* frames extracted so far: fewer than 8 bytes, or a whole header and fewer
\* than 8 + length bytes in all.
C18_BufferIsEmptyOrPartial ==
  \/ read_buffer_ = << >>
  \/ /\ Partial(read_buffer_)
     /\ socket_state = "Connected"
     /\ Len(dispatched) < Len(peer_frames)
     /\ LET next == peer_frames[Len(dispatched) + 1]
            frame == EncodeFrame(next.opcode, next.payload)
        IN  /\ Len(read_buffer_) < Len(frame)
            /\ read_buffer_ = SubSeq(frame, 1, Len(read_buffer_))

\* one read has brought the end of a frame and less than the header of the
\* next: the first was extracted, the bytes of the second wait
C18_Witness ==
  /\ last.op = "OnReadyRead"
  /\ decoded = 1
  /\ read_buffer_ # << >>
  /\ Len(read_buffer_) < 8
  /\ Len(peer_frames) = 2

(***************************************************************************)
(* Properties of the decoder for any declared length, under SpecLengths.   *)
(***************************************************************************)

\* buf starts with a whole header that declares more than kMaxFrameSize
Oversized(buf) ==
  /\ Len(buf) >= 8
  /\ LET length == ReadU32(buf, 4)
     IN  \/ length.hi > kMaxFrameSize \div 65536
         \/ /\ length.hi = kMaxFrameSize \div 65536
            /\ length.lo > kMaxFrameSize % 65536

\* C19: a read that puts at the front of the buffer a header declaring a
\* length above the maximum frame size (64 KiB) ends as a transport error
\* does: the socket is closed, the buffer is empty, the state is
\* Disconnected, the reconnect timer is armed, and nothing was extracted.
C19_OversizedLengthDisconnects ==
  [][ LET buf == read_buffer_ \o SubSeq(wire, 1, Len(wire) - Len(wire'))
      IN  (last'.op = "OnReadyRead" /\ Oversized(buf))
          => /\ socket_state' = "Unconnected"
             /\ state_' = "Disconnected"
             /\ read_buffer_' = << >>
             /\ timer_active'
             /\ decoded' = 0 ]_vars

\* C20: whatever the 32 bits of the length field are, a read makes the
\* decoder extract the frame at the front of the buffer only if the buffer
\* holds 8 + length bytes or more; the payload extracted has length bytes,
\* and when this frame is the only one extracted, 8 + length bytes have left
\* the buffer.
C20_DispatchOnlyWholeFrames ==
  [][ LET buf == read_buffer_ \o SubSeq(wire, 1, Len(wire) - Len(wire'))
      IN  (last'.op = "OnReadyRead" /\ socket_state' = "Connected" /\ decoded' >= 1)
          => LET length == ReadU32(buf, 4)
                 first == dispatched'[Len(dispatched) + 1]
             IN  /\ length.hi < 32768
                 /\ Len(buf) - 8 >= ToSize(length)
                 /\ Len(first.payload) = ToSize(length)
                 /\ decoded' = 1
                    => Len(read_buffer_') = Len(buf) - 8 - ToSize(length) ]_vars

=============================================================================
